---- MODULE Spec2Model ----
(***************************************************************************)
(* Model of video_qr_scan: qr_gen.py (the generation CLI: parse_args,       *)
(* generate_qr_codes, random_shuffle_frames, random_delete_frames,          *)
(* create_video) and scan_qr_codes_from_video.py (the scanning CLI:         *)
(* scan_qr_codes, read_sync_frame, analyze_frames_data, print_results).     *)
(*                                                                         *)
(* A frame image is modelled by the JSON text its QR code carries, a video *)
(* by the sequence of its frames' texts.  Python positions are 0-based;    *)
(* position p of a Python list is element p + 1 of the TLA+ sequence.      *)
(***************************************************************************)
EXTENDS Integers, Sequences, FiniteSets, TLC

\* Largest num_frames the generation CLI is run with.
MaxFrames == 5
\* Largest --scramble value the generation CLI is run with.
MaxSwaps == 4
\* Longest video not produced by this run that the scanning CLI is given,
\* and the largest integer its QR payloads carry.
MaxObserved == 3

TOTAL_FRAMES == "total_frames"
FRAME_I == "frame_i"
EXPECTED_FRAME_I == "expected_frame_i"
ACTUAL_FRAME_I == "actual_frame_i"

VARIABLES
    pc,                  \* position of the running program
    args,                \* qr_gen.py: the parsed arguments
    files,               \* qr_frames/frame<i>.png, as the text in its QR code
    qr_codes,            \* qr_gen.py main: the list of frame file indices
    qr_codes_cpy,        \* random_shuffle_frames: its working copy
    shuffle_i,           \* random_shuffle_frames: swaps done so far
    switched,            \* the pair of the last "Switching frames" line
    deleted,             \* the set of the "Deleted frames" line
    video,               \* the frames of the written video file
    video_written,       \* whether create_video ran
    frames_data,         \* scanner: the decoded payload of every frame
    total_frames,        \* analyze_frames_data: total read from the sync frame
    missing_frames,      \* analyze_frames_data: the missing list
    out_of_order_frames, \* analyze_frames_data: the out-of-order list
    walk_i,              \* analyze_frames_data: playback position of the loop
    result,              \* the tuple analyze_frames_data returned
    printed,             \* the result block print_results wrote, if any
    err,                 \* the "Error: ..." line printed, if any
    exception,           \* the uncaught Python exception, if any
    exit_status          \* -1 while running, else the process exit status

vars == <<pc, args, files, qr_codes, qr_codes_cpy, shuffle_i, switched,
          deleted, video, video_written, frames_data, total_frames,
          missing_frames, out_of_order_frames, walk_i, result, printed, err,
          exception, exit_status>>

genVars == <<args, files, qr_codes, qr_codes_cpy, shuffle_i, switched,
             deleted, video, video_written>>

scanVars == <<frames_data, total_frames, missing_frames, out_of_order_frames,
              walk_i, result, printed>>

(***************************************************************************)
(* Python and JSON values                                                  *)
(***************************************************************************)

\* A JSON value as Python holds it: an int, a bool (v is 1 or 0) or a
\* string (v is its length).
IntVal(n) == [t |-> "int", v |-> n]
BoolVal(b) == [t |-> "bool", v |-> IF b THEN 1 ELSE 0]
StrVal(n) == [t |-> "str", v |-> n]

\* Python truthiness: 0, False and "" are falsy.
Truthy(x) == x.v # 0

\* isinstance(x, int): bool is a subclass of int.
IsInstanceInt(x) == x.t \in {"int", "bool"}

\* Python ==: True == 1, a string never equals a number.
PyEq(a, b) ==
    IF IsInstanceInt(a) /\ IsInstanceInt(b) THEN a.v = b.v
    ELSE a.t = b.t /\ a.v = b.v

\* An optional argparse argument: None when the option was not given.
None == [set |-> FALSE, v |-> 0]
Some(n) == [set |-> TRUE, v |-> n]

\* Truthiness of an optional int argument: None and 0 are falsy.
ArgTruthy(a) == a.set /\ a.v # 0

(***************************************************************************)
(* json.dumps / json.loads on the one-key dictionaries of the protocol     *)
(***************************************************************************)

DigitChars == <<"0", "1", "2", "3", "4", "5", "6", "7", "8", "9">>

RECURSIVE Digits(_)
Digits(n) ==
    IF n < 10 THEN <<DigitChars[n + 1]>>
    ELSE Digits(n \div 10) \o <<DigitChars[(n % 10) + 1]>>

DigitValue(c) == (CHOOSE d \in 1..10 : DigitChars[d] = c) - 1

RECURSIVE ParseDigits(_)
ParseDigits(s) ==
    IF s = <<>> THEN 0
    ELSE 10 * ParseDigits(SubSeq(s, 1, Len(s) - 1)) + DigitValue(s[Len(s)])

RECURSIVE Repeat(_, _)
Repeat(c, n) == IF n = 0 THEN <<>> ELSE <<c>> \o Repeat(c, n - 1)

\* The text of one value.
DumpValue(x) ==
    CASE x.t = "int" ->
            IF x.v < 0 THEN <<"-">> \o Digits(0 - x.v) ELSE Digits(x.v)
      [] x.t = "bool" -> IF x.v = 1 THEN <<"true">> ELSE <<"false">>
      [] OTHER -> <<"\"">> \o Repeat("x", x.v) \o <<"\"">>

\* json.dumps of a one-key dictionary: {"key": value}.
json_dumps(d) ==
    LET k == CHOOSE key \in DOMAIN d : TRUE
    IN  <<"{", "\"", k, "\"", ":", " ">> \o DumpValue(d[k]) \o <<"}">>

LoadValue(s) ==
    CASE s[1] = "true" -> BoolVal(TRUE)
      [] s[1] = "false" -> BoolVal(FALSE)
      [] s[1] = "\"" -> StrVal(Len(s) - 2)
      [] s[1] = "-" -> IntVal(0 - ParseDigits(Tail(s)))
      [] OTHER -> IntVal(ParseDigits(s))

\* json.loads of such a text.
json_loads(s) == s[3] :> LoadValue(SubSeq(s, 7, Len(s) - 1))

(***************************************************************************)
(* qr_gen.py                                                               *)
(***************************************************************************)

\* parse_args without the upper limit on delete_random.
ArgsError_no_upper(num_frames, scramble, delete_random) ==
    IF num_frames <= 0
    THEN "Error: num_frames must be a value above 0"
    ELSE IF ArgTruthy(scramble) /\ scramble.v < 0
    THEN "Error: scramble must be a value above 0"
    ELSE IF ArgTruthy(delete_random) /\ delete_random.v < 0
    THEN "Error: delete_random must be a value between 1 and the specified num_frames value"
    ELSE ""

\* parse_args, lines 90-98: the error line printed, "" when args are valid.
\* The output_path test of lines 87-89 is never true (a truthy string has a
\* length above 0) and output_path reaches no frame, so it is left out.
ArgsError(num_frames, scramble, delete_random) ==
    IF num_frames <= 0
    THEN "Error: num_frames must be a value above 0"
    ELSE IF ArgTruthy(scramble) /\ scramble.v < 0
    THEN "Error: scramble must be a value above 0"
    ELSE IF ArgTruthy(delete_random)
            /\ (delete_random.v < 0 \/ delete_random.v > num_frames)
    THEN "Error: delete_random must be a value between 1 and the specified num_frames value"
    ELSE ""

\* generate_qr_codes numbering the frame records from 2.
qr_data_shifted(i, num_frames) ==
    IF i = 0 THEN TOTAL_FRAMES :> IntVal(num_frames)
    ELSE FRAME_I :> IntVal(i + 1)

\* generate_qr_codes, lines 24-28: the dictionary of frame i.
qr_data(i, num_frames) ==
    IF i = 0 THEN TOTAL_FRAMES :> IntVal(num_frames)
    ELSE FRAME_I :> IntVal(i)

\* generate_qr_codes: the files written, frame0.png .. frame<N-1>.png.
GeneratedFiles(num_frames) ==
    [k \in 1..num_frames |-> json_dumps(qr_data(k - 1, num_frames))]

\* generate_qr_codes: the returned list of file names.
GeneratedNames(num_frames) == [k \in 1..num_frames |-> k - 1]

\* A swap that writes only one of the two positions.
SwapFrames_onesided(s, idx1, idx2) == [s EXCEPT ![idx1 + 1] = s[idx2 + 1]]

\* A swap one position too low, which can move the sync record.
SwapFrames_shifted(s, idx1, idx2) ==
    [s EXCEPT ![idx1] = s[idx2], ![idx2] = s[idx1]]

\* random_shuffle_frames, line 57: exchange positions idx1 and idx2.
SwapFrames(s, idx1, idx2) ==
    [s EXCEPT ![idx1 + 1] = s[idx2 + 1], ![idx2 + 1] = s[idx1 + 1]]

\* A deletion that counts positions from 1.
RECURSIVE DeleteFrames_onebased(_, _)
DeleteFrames_onebased(s, del) ==
    IF s = <<>> THEN <<>>
    ELSE LET front == DeleteFrames_onebased(SubSeq(s, 1, Len(s) - 1), del)
         IN  IF Len(s) \in del THEN front ELSE Append(front, s[Len(s)])

\* random_delete_frames, line 66: keep the positions not in the set.
RECURSIVE DeleteFrames(_, _)
DeleteFrames(s, del) ==
    IF s = <<>> THEN <<>>
    ELSE LET front == DeleteFrames(SubSeq(s, 1, Len(s) - 1), del)
         IN  IF (Len(s) - 1) \in del THEN front ELSE Append(front, s[Len(s)])

NoArgs == [num_frames |-> 0, scramble |-> None, delete_random |-> None]

NumFramesArgs == (0 - 1)..MaxFrames
ScrambleArgs == {None} \cup {Some(n) : n \in (0 - 1)..MaxSwaps}
DeleteArgs == {None} \cup {Some(n) : n \in (0 - 1)..(MaxFrames + 1)}

NoResult == [total |-> IntVal(0 - 1), missing |-> <<>>, out_of_order |-> <<>>]

Init ==
    /\ pc = "start"
    /\ args = NoArgs
    /\ files = <<>>
    /\ qr_codes = <<>>
    /\ qr_codes_cpy = <<>>
    /\ shuffle_i = 0
    /\ switched = <<>>
    /\ deleted = {}
    /\ video = <<>>
    /\ video_written = FALSE
    /\ frames_data = <<>>
    /\ total_frames = IntVal(0)
    /\ missing_frames = <<>>
    /\ out_of_order_frames = <<>>
    /\ walk_i = 0
    /\ result = NoResult
    /\ printed = <<>>
    /\ err = ""
    /\ exception = ""
    /\ exit_status = 0 - 1

\* qr_gen.py lines 104-106: parse_args, and exit(1) when it returns None.
GenParseArgs ==
    /\ pc = "start"
    /\ \E n \in NumFramesArgs, s \in ScrambleArgs, d \in DeleteArgs :
          /\ args' = [num_frames |-> n, scramble |-> s, delete_random |-> d]
          /\ err' = ArgsError(n, s, d)
          /\ IF ArgsError(n, s, d) # ""
             THEN pc' = "gen_exit" /\ exit_status' = 1
             ELSE pc' = "gen_parsed" /\ exit_status' = exit_status
    /\ UNCHANGED <<files, qr_codes, qr_codes_cpy, shuffle_i, switched, deleted,
                   video, video_written, exception>>
    /\ UNCHANGED scanVars

\* qr_gen.py line 108: generate_qr_codes writes the frame files.
GenGenerate ==
    /\ pc = "gen_parsed"
    /\ files' = GeneratedFiles(args.num_frames)
    /\ qr_codes' = GeneratedNames(args.num_frames)
    /\ pc' = IF ArgTruthy(args.scramble) THEN "gen_shuffle_call"
             ELSE "gen_shuffled"
    /\ UNCHANGED <<args, qr_codes_cpy, shuffle_i, switched, deleted, video,
                   video_written, err, exception, exit_status>>
    /\ UNCHANGED scanVars

\* random_shuffle_frames line 53: the list is copied before any swap.
ShuffleCopy ==
    /\ pc = "gen_shuffle_call"
    /\ qr_codes_cpy' = qr_codes
    /\ shuffle_i' = 0
    /\ pc' = "gen_shuffling"
    /\ UNCHANGED <<args, files, qr_codes, switched, deleted, video,
                   video_written, err, exception, exit_status>>
    /\ UNCHANGED scanVars

\* random_shuffle_frames lines 54-57: one iteration of the loop.
\* random.sample raises ValueError when range(1, len) has fewer than two
\* members.
ShuffleStep ==
    /\ pc = "gen_shuffling"
    /\ shuffle_i < args.scramble.v
    /\ IF Len(qr_codes_cpy) - 1 < 2
       THEN /\ exception' = "ValueError"
            /\ exit_status' = 1
            /\ pc' = "gen_crash"
            /\ UNCHANGED <<qr_codes_cpy, shuffle_i, switched>>
       ELSE /\ \E idx1, idx2 \in 1..(Len(qr_codes_cpy) - 1) :
                  /\ idx1 # idx2
                  /\ switched' = <<idx1, idx2>>
                  /\ qr_codes_cpy' = SwapFrames(qr_codes_cpy, idx1, idx2)
            /\ shuffle_i' = shuffle_i + 1
            /\ UNCHANGED <<pc, exception, exit_status>>
    /\ UNCHANGED <<args, files, qr_codes, deleted, video, video_written, err>>
    /\ UNCHANGED scanVars

\* random_shuffle_frames line 59 and qr_gen.py line 110: the copy is
\* returned and bound to qr_codes.
ShuffleReturn ==
    /\ pc = "gen_shuffling"
    /\ shuffle_i >= args.scramble.v
    /\ qr_codes' = qr_codes_cpy
    /\ pc' = "gen_shuffled"
    /\ UNCHANGED <<args, files, qr_codes_cpy, shuffle_i, switched, deleted,
                   video, video_written, err, exception, exit_status>>
    /\ UNCHANGED scanVars

\* qr_gen.py lines 111-112: random_delete_frames, when --delete_random is
\* truthy.  random.sample draws num_deletes distinct positions.
GenDelete ==
    /\ pc = "gen_shuffled"
    /\ IF ArgTruthy(args.delete_random)
       THEN \E del \in SUBSET (0..(Len(qr_codes) - 1)) :
               /\ Cardinality(del) = args.delete_random.v
               /\ deleted' = del
               /\ qr_codes' = DeleteFrames(qr_codes, del)
       ELSE UNCHANGED <<deleted, qr_codes>>
    /\ pc' = "gen_deleted"
    /\ UNCHANGED <<args, files, qr_codes_cpy, shuffle_i, switched, video,
                   video_written, err, exception, exit_status>>
    /\ UNCHANGED scanVars

\* create_video, lines 42-49: every listed frame file is written in order.
create_video(frame_filenames) ==
    [k \in 1..Len(frame_filenames) |-> files[frame_filenames[k] + 1]]

\* qr_gen.py lines 114-115.
GenCreateVideo ==
    /\ pc = "gen_deleted"
    /\ video' = create_video(qr_codes)
    /\ video_written' = TRUE
    /\ exit_status' = 0
    /\ pc' = "gen_done"
    /\ UNCHANGED <<args, files, qr_codes, qr_codes_cpy, shuffle_i, switched,
                   deleted, err, exception>>
    /\ UNCHANGED scanVars

(***************************************************************************)
(* scan_qr_codes_from_video.py                                             *)
(***************************************************************************)

\* scan_qr_codes, lines 22-41: the QR text of every frame through json.loads,
\* in frame order.
scan_qr_codes(v) == [k \in 1..Len(v) |-> json_loads(v[k])]

\* read_sync_frame, lines 63-70: (found, total_frames).
read_sync_frame(fd) ==
    LET first_frame == fd[1]
    IN  IF TOTAL_FRAMES \notin DOMAIN first_frame
           \/ ~Truthy(first_frame[TOTAL_FRAMES])
        THEN [found |-> FALSE, total |-> IntVal(0)]
        ELSE IF ~IsInstanceInt(first_frame[TOTAL_FRAMES])
        THEN [found |-> FALSE, total |-> IntVal(0)]
        ELSE [found |-> TRUE, total |-> first_frame[TOTAL_FRAMES]]

\* range(1, total_frames + 1) in place of range(1, total_frames).
InitialMissing_inclusive(total) == [k \in 1..total.v |-> k]

\* analyze_frames_data line 111: [i for i in range(1, total_frames)].
InitialMissing(total) == [k \in 1..(total.v - 1) |-> k]

\* x in list, by Python equality.
ListContains(list, x) == \E k \in 1..Len(list) : PyEq(IntVal(list[k]), x)

\* list.remove(x): the first element equal to x is taken out.
ListRemove(list, x) ==
    LET k == CHOOSE j \in 1..Len(list) :
                 /\ PyEq(IntVal(list[j]), x)
                 /\ \A h \in 1..(j - 1) : ~PyEq(IntVal(list[h]), x)
    IN  SubSeq(list, 1, k - 1) \o SubSeq(list, k + 1, Len(list))

\* A test that only sees frames played later than they declare.
IsOutOfOrder_behind(i, frame_i) == i > frame_i.v

\* analyze_frames_data line 120: i != frame_i.
IsOutOfOrder(i, frame_i) == ~PyEq(IntVal(i), frame_i)

\* The entry with the two fields exchanged.
frame_info_slot_expected(i, frame_i) ==
    (EXPECTED_FRAME_I :> IntVal(i)) @@ (ACTUAL_FRAME_I :> frame_i)

\* analyze_frames_data lines 121-124: the entry of an out-of-order frame.
frame_info(i, frame_i) ==
    (EXPECTED_FRAME_I :> frame_i) @@ (ACTUAL_FRAME_I :> IntVal(i))

\* The tuple analyze_frames_data returns.
Report(total, missing, ooo) ==
    [total |-> total, missing |-> missing, out_of_order |-> ooo]

\* print_results, lines 133-149: the total, the missing list and one
\* (expected, actual) line per out-of-order entry.
print_results(total, missing, ooo) ==
    [total_frames |-> total,
     missing_frames |-> missing,
     out_of_order |-> [k \in 1..Len(ooo) |->
                          <<ooo[k][EXPECTED_FRAME_I], ooo[k][ACTUAL_FRAME_I]>>]]

\* The payloads of a video that this run did not generate.
ForeignPayloads ==
    {TOTAL_FRAMES :> x :
        x \in {IntVal(n) : n \in (0 - 1)..MaxObserved}
              \cup {StrVal(1), BoolVal(TRUE)}}
    \cup {FRAME_I :> IntVal(n) : n \in 0..MaxObserved}

ForeignTexts == {json_dumps(p) : p \in ForeignPayloads}

ForeignVideos == UNION {[1..n -> ForeignTexts] : n \in 0..MaxObserved}

\* The scanning CLI is run on the video the generation CLI just wrote.
ScanGenerated ==
    /\ pc = "gen_done"
    /\ frames_data' = scan_qr_codes(video)
    /\ exit_status' = 0 - 1
    /\ pc' = "scan_scanned"
    /\ UNCHANGED genVars
    /\ UNCHANGED <<total_frames, missing_frames, out_of_order_frames, walk_i,
                   result, printed, err, exception>>

\* The scanning CLI is run on some other video.
ScanForeign ==
    /\ pc = "start"
    /\ \E v \in ForeignVideos :
          /\ video' = v
          /\ frames_data' = scan_qr_codes(v)
    /\ pc' = "scan_scanned"
    /\ UNCHANGED <<args, files, qr_codes, qr_codes_cpy, shuffle_i, switched,
                   deleted, video_written>>
    /\ UNCHANGED <<total_frames, missing_frames, out_of_order_frames, walk_i,
                   result, printed, err, exception, exit_status>>

\* analyze_frames_data lines 100-112: the empty check, the sync frame and
\* the initial lists.
AnalyzeStart ==
    /\ pc = "scan_scanned"
    /\ IF frames_data = <<>>
       THEN /\ err' = "Error: no frames found in input video."
            /\ result' = Report(IntVal(0), <<>>, <<>>)
            /\ pc' = "scan_analyzed"
            /\ UNCHANGED <<total_frames, missing_frames, out_of_order_frames,
                           walk_i>>
       ELSE IF ~read_sync_frame(frames_data).found
       THEN /\ err' = "Error: first sync frame missing"
            /\ total_frames' = read_sync_frame(frames_data).total
            /\ result' = Report(IntVal(0), <<>>, <<>>)
            /\ pc' = "scan_analyzed"
            /\ UNCHANGED <<missing_frames, out_of_order_frames, walk_i>>
       ELSE /\ total_frames' = read_sync_frame(frames_data).total
            /\ missing_frames' =
                   InitialMissing(read_sync_frame(frames_data).total)
            /\ out_of_order_frames' = <<>>
            /\ walk_i' = 1
            /\ pc' = "scan_walk"
            /\ UNCHANGED <<err, result>>
    /\ UNCHANGED genVars
    /\ UNCHANGED <<frames_data, printed, exception, exit_status>>

\* analyze_frames_data lines 115-125: one iteration over frames_data[1:].
\* frame[FRAME_I] raises KeyError when the key is absent, list.remove raises
\* ValueError when the value is not in the list.
AnalyzeStep ==
    /\ pc = "scan_walk"
    /\ walk_i <= Len(frames_data) - 1
    /\ LET frame == frames_data[walk_i + 1]
       IN  IF FRAME_I \notin DOMAIN frame
           THEN /\ exception' = "KeyError"
                /\ exit_status' = 1
                /\ pc' = "scan_crash"
                /\ UNCHANGED <<missing_frames, out_of_order_frames, walk_i>>
           ELSE IF ~ListContains(missing_frames, frame[FRAME_I])
           THEN /\ exception' = "ValueError"
                /\ exit_status' = 1
                /\ pc' = "scan_crash"
                /\ UNCHANGED <<missing_frames, out_of_order_frames, walk_i>>
           ELSE /\ missing_frames' = ListRemove(missing_frames, frame[FRAME_I])
                /\ out_of_order_frames' =
                       IF IsOutOfOrder(walk_i, frame[FRAME_I])
                       THEN Append(out_of_order_frames,
                                   frame_info(walk_i, frame[FRAME_I]))
                       ELSE out_of_order_frames
                /\ walk_i' = walk_i + 1
                /\ UNCHANGED <<pc, exception, exit_status>>
    /\ UNCHANGED genVars
    /\ UNCHANGED <<frames_data, total_frames, result, printed, err>>

\* analyze_frames_data line 127.
AnalyzeReturn ==
    /\ pc = "scan_walk"
    /\ walk_i > Len(frames_data) - 1
    /\ result' = Report(total_frames, missing_frames, out_of_order_frames)
    /\ pc' = "scan_analyzed"
    /\ UNCHANGED genVars
    /\ UNCHANGED <<frames_data, total_frames, missing_frames,
                   out_of_order_frames, walk_i, printed, err, exception,
                   exit_status>>

\* scan_qr_codes_from_video.py lines 170-171: the results are printed only
\* when the returned total is above 0.
ScanMain ==
    /\ pc = "scan_analyzed"
    /\ printed' =
           IF result.total.v > 0
           THEN <<print_results(result.total, result.missing,
                                result.out_of_order)>>
           ELSE <<>>
    /\ exit_status' = 0
    /\ pc' = "scan_done"
    /\ UNCHANGED genVars
    /\ UNCHANGED <<frames_data, total_frames, missing_frames,
                   out_of_order_frames, walk_i, result, err, exception>>

Next ==
    \/ GenParseArgs
    \/ GenGenerate
    \/ ShuffleCopy
    \/ ShuffleStep
    \/ ShuffleReturn
    \/ GenDelete
    \/ GenCreateVideo
    \/ ScanGenerated
    \/ ScanForeign
    \/ AnalyzeStart
    \/ AnalyzeStep
    \/ AnalyzeReturn
    \/ ScanMain

Spec == Init /\ [][Next]_vars

(***************************************************************************)
(* random_shuffle_frames on its own: called on any list of frame files     *)
(* (the generated list with any positions already taken out) with any       *)
(* num_shuffles >= 0.                                                       *)
(***************************************************************************)

ShuffleInputs ==
    {DeleteFrames(GeneratedNames(MaxFrames), del) :
        del \in SUBSET (0..(MaxFrames - 1))} \ {<<>>}

InitShuffle ==
    /\ pc = "gen_shuffle_call"
    /\ qr_codes \in ShuffleInputs
    /\ \E n \in 0..MaxSwaps :
          args = [num_frames |-> MaxFrames, scramble |-> Some(n),
                  delete_random |-> None]
    /\ files = GeneratedFiles(MaxFrames)
    /\ qr_codes_cpy = <<>>
    /\ shuffle_i = 0
    /\ switched = <<>>
    /\ deleted = {}
    /\ video = <<>>
    /\ video_written = FALSE
    /\ frames_data = <<>>
    /\ total_frames = IntVal(0)
    /\ missing_frames = <<>>
    /\ out_of_order_frames = <<>>
    /\ walk_i = 0
    /\ result = NoResult
    /\ printed = <<>>
    /\ err = ""
    /\ exception = ""
    /\ exit_status = 0 - 1

NextShuffle ==
    \/ ShuffleCopy
    \/ ShuffleStep
    \/ ShuffleReturn

SpecShuffle == InitShuffle /\ [][NextShuffle]_vars

(***************************************************************************)
(* Properties                                                              *)
(***************************************************************************)

ScanPcs == {"scan_scanned", "scan_walk", "scan_analyzed", "scan_done",
            "scan_crash"}

GenPcs == {"gen_exit", "gen_parsed", "gen_shuffle_call", "gen_shuffling",
           "gen_shuffled", "gen_deleted", "gen_done", "gen_crash"}

\* analyze_frames_data has returned.
Analyzed == pc \in {"scan_analyzed", "scan_done"}

\* The scanner runs on the video this run generated.
ScanOfGenerated == video_written /\ pc \in ScanPcs

\* The generation CLI has been invoked with args.
GenInvoked == pc \in GenPcs \/ video_written

\* What analyze_frames_data returns on its two error paths.
FailedReport == Report(IntVal(0), <<>>, <<>>)

\* The members of a set of integers in ascending order.
RECURSIVE Ascending(_)
Ascending(S) ==
    IF S = {} THEN <<>>
    ELSE LET m == CHOOSE x \in S : \A y \in S : x <= y
         IN  <<m>> \o Ascending(S \ {m})

SeqRange(s) == {s[k] : k \in 1..Len(s)}

\* The frame_i values the observed frame records carry.
ObservedIndices ==
    {frames_data[k][FRAME_I].v :
        k \in {j \in 1..Len(frames_data) : FRAME_I \in DOMAIN frames_data[j]}}

\* C8: generate(N), for N > 0, yields exactly N payloads; position 0 is the
\* sync record {total_frames: N}, every position i in 1..N-1 is the frame
\* record {frame_i: i}, and exactly one payload is a sync record.
C8_GenerateShape ==
    (pc = "gen_shuffle_call"
        \/ (pc = "gen_shuffled" /\ ~ArgTruthy(args.scramble)))
    => LET payloads == scan_qr_codes(create_video(qr_codes))
           N == args.num_frames
       IN  /\ N > 0
           /\ Len(payloads) = N
           /\ Len(files) = N
           /\ payloads[1] = (TOTAL_FRAMES :> IntVal(N))
           /\ \A i \in 1..(N - 1) : payloads[i + 1] = (FRAME_I :> IntVal(i))
           /\ Cardinality({k \in 1..N : TOTAL_FRAMES \in DOMAIN payloads[k]})
                  = 1

C8_Witness ==
    /\ pc = "gen_shuffle_call"
    /\ args.num_frames = MaxFrames
    /\ Len(qr_codes) = MaxFrames

\* C1: reconciliation of the untouched generate(N) sequence (no shuffle, no
\* deletion), N >= 1, returns expected total N, an empty missing list and
\* an empty out-of-order list, without an error.
C1_UntouchedReconciles ==
    (ScanOfGenerated /\ ~ArgTruthy(args.scramble)
        /\ ~ArgTruthy(args.delete_random))
    => /\ pc # "scan_crash"
       /\ Analyzed =>
             /\ result = Report(IntVal(args.num_frames), <<>>, <<>>)
             /\ err = ""

C1_Witness ==
    /\ pc = "scan_analyzed"
    /\ video_written
    /\ ~ArgTruthy(args.scramble)
    /\ ~ArgTruthy(args.delete_random)
    /\ args.num_frames >= 2
    /\ result.total = IntVal(args.num_frames)

\* The number of frames random_delete_frames was asked to delete.
DeleteCount ==
    IF ArgTruthy(args.delete_random) THEN args.delete_random.v ELSE 0

\* C2: after delete_random removes d distinct positions from generate(N)
\* (unshuffled): if the sync frame survived, the missing list has exactly d
\* entries, the deleted indices (the members of 1..N-1 not observed) in
\* ascending order; if the sync frame was deleted and a frame remains,
\* reconciliation fails with the missing-sync error and no report.
C2_DeletedAreMissing ==
    (ScanOfGenerated /\ ~ArgTruthy(args.scramble))
    => /\ Cardinality(deleted) = DeleteCount
       /\ IF 0 \notin deleted
          THEN /\ pc # "scan_crash"
               /\ Analyzed =>
                     /\ Len(result.missing) = DeleteCount
                     /\ result.missing = Ascending(deleted)
                     /\ deleted = (1..(args.num_frames - 1)) \ ObservedIndices
                     /\ err = ""
          ELSE frames_data # <<>> =>
                  /\ pc \notin {"scan_walk", "scan_crash"}
                  /\ Analyzed =>
                        /\ result = FailedReport
                        /\ err = "Error: first sync frame missing"
                  /\ pc = "scan_done" => printed = <<>>

C2_Witness ==
    /\ pc = "scan_analyzed"
    /\ video_written
    /\ ~ArgTruthy(args.scramble)
    /\ 0 \notin deleted
    /\ Cardinality(deleted) = 2
    /\ Len(result.missing) = 2

\* An out-of-order entry as analyze_frames_data builds it.
Entry(expected, actual) ==
    (EXPECTED_FRAME_I :> IntVal(expected)) @@ (ACTUAL_FRAME_I :> IntVal(actual))

\* C3: after one shuffle swap of the distinct non-sync positions (p, q) of
\* generate(N), N >= 3, and no deletion, reconciliation reports exactly two
\* out-of-order entries, {expected p, actual q} and {expected q, actual p},
\* and an empty missing list.
C3_SingleSwapTwoEntries ==
    (ScanOfGenerated /\ args.scramble = Some(1)
        /\ ~ArgTruthy(args.delete_random))
    => /\ pc # "scan_crash"
       /\ args.num_frames >= 3
       /\ Analyzed =>
             LET p == switched[1]
                 q == switched[2]
             IN  /\ p # q
                 /\ {p, q} \subseteq 1..(args.num_frames - 1)
                 /\ Len(result.out_of_order) = 2
                 /\ SeqRange(result.out_of_order) = {Entry(p, q), Entry(q, p)}
                 /\ result.missing = <<>>
                 /\ result.total = IntVal(args.num_frames)

C3_Witness ==
    /\ pc = "scan_analyzed"
    /\ video_written
    /\ args.scramble = Some(1)
    /\ ~ArgTruthy(args.delete_random)
    /\ switched = <<2, 4>>
    /\ Len(result.out_of_order) = 2

\* Whether a set of deleted positions of a list of length n is a suffix of it.
IsSuffix(del, n) == \A p \in del : \A q \in p..(n - 1) : q \in del

\* C10: after deleting positions from the unshuffled generate(N) with the
\* sync frame surviving, the out-of-order list holds one entry for every
\* surviving frame whose frame_i is above the smallest deleted index and none
\* for the frames before it; it is empty only when the deleted positions
\* form a suffix of the sequence.
C10_LossShiftsLaterFrames ==
    (ScanOfGenerated /\ ~ArgTruthy(args.scramble) /\ 0 \notin deleted
        /\ Analyzed)
    => LET N == args.num_frames
           shifted == {f \in (1..(N - 1)) \ deleted :
                          \E d \in deleted : d < f}
           reported == {result.out_of_order[k][EXPECTED_FRAME_I] :
                           k \in 1..Len(result.out_of_order)}
       IN  /\ reported = {IntVal(f) : f \in shifted}
           /\ Len(result.out_of_order) = Cardinality(shifted)
           /\ (result.out_of_order = <<>>) <=> IsSuffix(deleted, N)

C10_Witness ==
    /\ pc = "scan_analyzed"
    /\ video_written
    /\ ~ArgTruthy(args.scramble)
    /\ deleted = {2}
    /\ args.num_frames = 5
    /\ Len(result.out_of_order) = 2

\* The number of entries of frames_data[1:] the walk has gone through.
Processed == IF walk_i = 0 THEN 0 ELSE walk_i - 1

\* The out-of-order list of the first n entries of frames_data[1:], as the
\* specification words it: expected is the playback position, actual the
\* declared frame_i.
RECURSIVE SlotExpectedUpTo(_)
SlotExpectedUpTo(n) ==
    IF n = 0 THEN <<>>
    ELSE LET f == frames_data[n + 1][FRAME_I]
         IN  IF ~PyEq(IntVal(n), f)
             THEN Append(SlotExpectedUpTo(n - 1),
                         (EXPECTED_FRAME_I :> IntVal(n))
                             @@ (ACTUAL_FRAME_I :> f))
             ELSE SlotExpectedUpTo(n - 1)

\* The same list with expected the declared frame_i and actual the playback
\* position.
RECURSIVE DeclaredExpectedUpTo(_)
DeclaredExpectedUpTo(n) ==
    IF n = 0 THEN <<>>
    ELSE LET f == frames_data[n + 1][FRAME_I]
         IN  IF ~PyEq(IntVal(n), f)
             THEN Append(DeclaredExpectedUpTo(n - 1),
                         (EXPECTED_FRAME_I :> f)
                             @@ (ACTUAL_FRAME_I :> IntVal(n)))
             ELSE DeclaredExpectedUpTo(n - 1)

\* C9, as claimed: walking observed[1:] with playback position i, one entry
\* is recorded for exactly the frames whose frame_i differs from i, in
\* playback order, each with expected = i and actual = frame_i.
C9_ExpectedIsPlaybackSlot ==
    /\ out_of_order_frames = SlotExpectedUpTo(Processed)
    /\ (Analyzed /\ walk_i > 0) => result.out_of_order = out_of_order_frames

\* C9, amended: over the entries of observed[1:] the walk has gone through,
\* one entry is recorded for exactly the frames whose frame_i differs from
\* the playback position i, in playback order, each with expected_frame_i =
\* frame_i (the declared position) and actual_frame_i = i (the playback
\* position); the returned and the printed lists are that list.
C9_ExpectedIsDeclaredIndex ==
    /\ out_of_order_frames = DeclaredExpectedUpTo(Processed)
    /\ (Analyzed /\ walk_i > 0) => result.out_of_order = out_of_order_frames
    /\ (pc = "scan_done" /\ printed # <<>>) =>
           printed[1].out_of_order =
               [k \in 1..Len(out_of_order_frames) |->
                   <<out_of_order_frames[k][EXPECTED_FRAME_I],
                     out_of_order_frames[k][ACTUAL_FRAME_I]>>]

C9_Witness ==
    /\ pc = "scan_done"
    /\ printed # <<>>
    /\ Len(out_of_order_frames) >= 2
    /\ out_of_order_frames[1][EXPECTED_FRAME_I] = IntVal(2)
    /\ out_of_order_frames[1][ACTUAL_FRAME_I] = IntVal(1)

\* The invalid argument values the specification lists for the generation
\* CLI.
InvalidAsClaimed(a) ==
    \/ a.num_frames <= 0
    \/ a.scramble.set /\ (a.scramble.v < 0 \/ a.scramble.v > a.num_frames)
    \/ a.delete_random.set
          /\ (a.delete_random.v < 0 \/ a.delete_random.v > a.num_frames)

\* The same without "scramble > num_frames".
InvalidAsChecked(a) ==
    \/ a.num_frames <= 0
    \/ a.scramble.set /\ a.scramble.v < 0
    \/ a.delete_random.set
          /\ (a.delete_random.v < 0 \/ a.delete_random.v > a.num_frames)

\* The run was refused: an error line, exit status 1, no frame file and no
\* video written, no generate, shuffle, delete or create_video step.
Rejected ==
    /\ pc = "gen_exit"
    /\ err # ""
    /\ exit_status = 1
    /\ files = <<>>
    /\ qr_codes = <<>>
    /\ ~video_written

\* C7, as claimed: the generation CLI rejects num_frames <= 0, scramble < 0,
\* scramble > num_frames and delete_random outside [0, num_frames] with an
\* error and a non-zero exit status before anything is written.
C7_RejectsAllClaimed == (GenInvoked /\ InvalidAsClaimed(args)) => Rejected

\* C7, amended: the generation CLI rejects num_frames <= 0, scramble < 0 and
\* delete_random outside [0, num_frames] with an error and exit status 1
\* before anything is written; scramble > num_frames is accepted.
C7_RejectsChecked ==
    /\ (GenInvoked /\ InvalidAsChecked(args)) => Rejected
    /\ (GenInvoked /\ ~InvalidAsChecked(args)) => pc # "gen_exit"

C7_Witness ==
    /\ pc = "gen_exit"
    /\ args.num_frames = 3
    /\ args.scramble = None
    /\ args.delete_random = Some(4)
    /\ exit_status = 1

\* Two lists hold the same elements the same number of times.
IsPermutation(a, b) ==
    /\ Len(a) = Len(b)
    /\ \A x \in SeqRange(a) \cup SeqRange(b) :
          Cardinality({k \in 1..Len(a) : a[k] = x})
              = Cardinality({k \in 1..Len(b) : b[k] = x})

\* While random_shuffle_frames runs, its copy keeps the sync record at
\* position 0 and is a permutation of its input; what it returns is the copy
\* after num_shuffles swaps.
ShuffleKeepsFrames ==
    /\ pc = "gen_shuffling" =>
          /\ qr_codes_cpy[1] = qr_codes[1]
          /\ IsPermutation(qr_codes_cpy, qr_codes)
          /\ shuffle_i <= args.scramble.v
    /\ pc = "gen_shuffled" =>
          /\ qr_codes = qr_codes_cpy
          /\ shuffle_i = args.scramble.v

\* One step inside random_shuffle_frames leaves the input list alone, and a
\* swap exchanges two distinct non-sync positions of the copy.
ShuffleStepSwaps ==
    (pc = "gen_shuffling" /\ pc' = "gen_shuffling")
    => /\ qr_codes' = qr_codes
       /\ shuffle_i' = shuffle_i + 1
       /\ \E a, b \in 1..(Len(qr_codes) - 1) :
             /\ a # b
             /\ switched' = <<a, b>>
             /\ qr_codes_cpy'[a + 1] = qr_codes_cpy[b + 1]
             /\ qr_codes_cpy'[b + 1] = qr_codes_cpy[a + 1]
             /\ \A k \in (1..Len(qr_codes)) \ {a + 1, b + 1} :
                   qr_codes_cpy'[k] = qr_codes_cpy[k]

\* C6, as claimed: for every sequence of length N >= 1 and every swap_count
\* >= 0, shuffle performs swap_count transpositions of two distinct non-sync
\* positions and returns a sequence with the sync record at position 0 and a
\* permutation of the input's frame records after it; it never fails.
C6_ShuffleAlwaysReturns ==
    /\ exception = ""
    /\ pc # "gen_crash"
    /\ ShuffleKeepsFrames

\* C6, amended: for every sequence of length N >= 3 and every swap_count >=
\* 0, and for N in {1, 2} with swap_count = 0, shuffle performs swap_count
\* transpositions of two distinct positions of 1..N-1 and returns a sequence
\* with the sync record at position 0 and positions 1..N-1 a permutation of
\* the input's frame records, the input left unchanged; for N in {1, 2} and
\* swap_count >= 1 it raises ValueError and returns nothing.
C6_ShufflePermutes ==
    /\ [](IF Len(qr_codes) >= 3 \/ args.scramble.v = 0
          THEN exception = "" /\ pc # "gen_crash" /\ ShuffleKeepsFrames
          ELSE /\ pc # "gen_shuffled"
               /\ pc = "gen_crash" => exception = "ValueError")
    /\ [][ShuffleStepSwaps]_vars

C6_Witness ==
    /\ pc = "gen_shuffled"
    /\ shuffle_i = 2
    /\ Len(qr_codes) >= 4
    /\ qr_codes[1] = 0
    /\ qr_codes[2] > qr_codes[3]
    /\ qr_codes[3] > qr_codes[4]

\* The playback positions the walk has reached, the one it failed on
\* included.
Attempted == IF pc = "scan_crash" THEN walk_i ELSE Processed

\* Entry k of frames_data[1:] declares a frame_i that is not in the missing
\* set when the walk reaches it: outside 1..total_frames-1, or the frame_i
\* of an earlier entry.
Anomalous(k) ==
    /\ FRAME_I \in DOMAIN frames_data[k + 1]
    /\ LET f == frames_data[k + 1][FRAME_I]
       IN  \/ ~ListContains(InitialMissing(total_frames), f)
           \/ \E j \in 1..(k - 1) : PyEq(frames_data[j + 1][FRAME_I], f)

\* C4: whenever an observed frame record declares a frame_i that is not in
\* the missing set (a duplicate, or a value outside 1..total_frames-1), the
\* engine reports it as an error or warning; it neither crashes nor drops it
\* silently.
C4_AnomalyReportedNotCrash ==
    \A k \in 1..Attempted :
        Anomalous(k) => (exception = "" /\ pc # "scan_crash" /\ err # "")

\* observed[0] is a sync record carrying a positive integer total_frames.
IsValidSync(p) ==
    /\ TOTAL_FRAMES \in DOMAIN p
    /\ p[TOTAL_FRAMES].t = "int"
    /\ p[TOTAL_FRAMES].v > 0

\* C5: reconciliation produces no report when the observed sequence is
\* empty (the no-frames error) and when observed[0] is not a sync record
\* with a positive integer total_frames (the missing-sync error); the
\* scanning CLI then prints the error and none of the result lines.
C5_InvalidInputFailsWithError ==
    /\ (pc \in ScanPcs \ {"scan_scanned"} /\ frames_data = <<>>) =>
          /\ Analyzed
          /\ result = FailedReport
          /\ err = "Error: no frames found in input video."
          /\ printed = <<>>
    /\ (pc \in ScanPcs \ {"scan_scanned"} /\ frames_data # <<>>
           /\ ~IsValidSync(frames_data[1])) =>
          /\ Analyzed
          /\ result = FailedReport
          /\ err = "Error: first sync frame missing"
          /\ printed = <<>>

====
